---- MODULE Spec2Model ----
(***************************************************************************)
(* Gamified productivity tracker (FastAPI + MongoDB backend).              *)
(*                                                                         *)
(* The model has two layers:                                               *)
(*   - the pure scoring functions of backend/gamification.py, as operators;*)
(*   - the request handlers of backend/server.py, as processes.  Every     *)
(*     `await` of a handler is one atomic step: the handler's local        *)
(*     computation since the previous await together with the one database *)
(*     operation it awaits.  Handlers of different requests interleave at  *)
(*     these steps, as coroutines of one asyncio event loop do.            *)
(*                                                                         *)
(* Time is the UTC clock in seconds.  Floating-point multipliers are kept  *)
(* in tenths (1.3 is 13).                                                  *)
(***************************************************************************)
EXTENDS Integers, Sequences, FiniteSets, TLC

\* ------------------------------------------------------------------ bounds
\* A signup, create_task or get_daily_boss request is accepted only while fewer
\* than MaxUsers, MaxTasks, MaxBoss documents of its collection are stored;
\* requests accepted together may each insert one.
MaxUsers == 1
MaxTasks == 1
MaxBoss  == 1
MaxTicks == 4       \* clock advances (of TickSeconds each)
NProcs   == 2       \* requests in flight at the same time

\* ------------------------------------------------------- program constants
DAY         == 86400     \* calculate_streak: "Less than 24 hours"
TWO_DAYS    == 172800    \* calculate_streak: "Less than 48 hours"
MAX_LEVEL   == 1000      \* calculate_level_from_xp / xp_for_next_level cap
TickSeconds == DAY \div 2     \* granularity of the modelled clock: 12 hours

Null == [kind |-> "null"]

Max(a, b) == IF a >= b THEN a ELSE b
Min(a, b) == IF a <= b THEN a ELSE b

Procs   == 1..NProcs
UserIds == 1..(MaxUsers + NProcs - 1)
TaskSlots == 1..(MaxTasks + NProcs - 1)
Emails  == {"a@x", "b@x"}

\* signup: for skill in ["Mind", "Knowledge", "Discipline", "Fitness"]
SKILLS == <<"Mind", "Knowledge", "Discipline", "Fitness">>
SkillSet == {SKILLS[i] : i \in 1..Len(SKILLS)}

\* The TaskCreate bodies clients send (TaskCreate validates no range): the
\* spec's end-to-end scenario, and a task whose reward alone is
\* xp_for_next_level(999) = 99,800,100 XP.
TaskInputs ==
  { [skill_tree |-> "Fitness", difficulty |-> 3, estimated_minutes |-> 30],
    [skill_tree |-> "Mind",    difficulty |-> 1, estimated_minutes |-> 49900040] }

\* ================================================================ gamification.py

\* floor(sqrt(n)) by bisection on lo..hi, lo*lo <= n < (hi+1)*(hi+1)
RECURSIVE SqrtSearch(_, _, _)
SqrtSearch(n, lo, hi) ==
  IF lo >= hi THEN lo
  ELSE LET mid == (lo + hi + 1) \div 2
       IN  IF mid * mid <= n THEN SqrtSearch(n, mid, hi)
                             ELSE SqrtSearch(n, lo, mid - 1)

\* int(math.sqrt(x)) for x = n + fraction, n >= 0 (46340^2 < 2^31)
isqrt(n) == SqrtSearch(n, 0, 46340)

\* calculate_level_from_xp without the + 1 after the square root
calculate_level_from_xp_root(total_xp) ==
  Max(1, Min(MAX_LEVEL, isqrt(total_xp \div 100)))

\* calculate_level_from_xp without the cap at 1000
calculate_level_from_xp_uncapped(total_xp) ==
  Max(1, isqrt(total_xp \div 100) + 1)

\* level = int(math.sqrt(total_xp / 100)) + 1 ; max(1, min(1000, level))
calculate_level_from_xp(total_xp) ==
  Max(1, Min(MAX_LEVEL, isqrt(total_xp \div 100) + 1))

\* xp_for_next_level with the threshold of the level after next
xp_for_next_level_one_further(current_level) ==
  IF current_level >= MAX_LEVEL THEN 0
  ELSE ((current_level + 1) * (current_level + 1)) * 100

xp_for_next_level(current_level) ==
  IF current_level >= MAX_LEVEL THEN 0 ELSE (current_level * current_level) * 100

\* The binary64 value of `1.0 + streak * 0.1` is not the decimal 1 + streak/10:
\* STREAK_MULT_ERR[streak + 1] is (the double - the decimal) in fifths of the
\* double's unit in the last place, for streak 0..60 (IEEE-754, round to
\* nearest even, as CPython evaluates the expression).
STREAK_MULT_ERR ==
  << 0, 2, -1, 1, -2, 0, 2, 4, 1, -2, 0, 1, 2, -2, 4, 0, 1, 2, -2, 4,
     0, 1, 2, 3, 4, 0, 1, 2, 3, 4, 0, -2, 1, 4, 2, 0, -2, 1, 4, 2,
     0, 3, 1, -1, 2, 0, 3, 1, 4, 2, 0, 3, 1, 4, 2, 0, 3, 1, 4, 2, 0 >>

\* the largest power of two strictly below k (k >= 2), searched from b
RECURSIVE PowBelow(_, _)
PowBelow(k, b) == IF 2 * b < k THEN PowBelow(k, 2 * b) ELSE b

\* 2^floor(log2(mult10 / 10)) for a multiplier in [1.0, 8.0)
Binade(mult10) == IF mult10 < 20 THEN 1 ELSE IF mult10 < 40 THEN 2 ELSE 4

\* the exact floor of base times the decimal multiplier
ExactReward(base, mult10) == (base * mult10) \div 10

\* int(base * streak_multiplier) in binary64: the decimal product truncated,
\* one less when that product is an integer q, the double multiplier lies
\* below the decimal one and the float product does not round up to q
\* (base * |err| * ulp(multiplier) > half an ulp of the doubles below q)
FloatProductInt(base, mult10) ==
  LET q == ExactReward(base, mult10)
      err == STREAK_MULT_ERR[mult10 - 9]
  IN  IF /\ base > 0 /\ (base * mult10) % 10 = 0 /\ err < 0
         /\ 2 * base * (0 - err) * Binade(mult10) > 5 * PowBelow(q, 1)
      THEN q - 1
      ELSE q

\* int((base_xp + time_bonus) * streak_multiplier), with streak_multiplier the
\* double 1.0 + (mult10 - 10) * 0.1
calculate_xp_reward(difficulty, estimated_minutes, mult10) ==
  FloatProductInt(difficulty * 20 + estimated_minutes * 2, mult10)

\* the pairs (completed, missed) up to 12 for which the binary64 value of
\* (completed / (completed + missed) - 0.5) * 40 falls just short of the
\* integer that the exact quotient 20 * (completed - missed) / total is
COMPLETION_FLOAT_SHORT ==
  { <<2, 3>>, <<3, 2>>, <<4, 6>>, <<6, 4>>, <<6, 9>>, <<7, 3>>, <<8, 12>>,
    <<9, 6>>, <<9, 11>>, <<12, 8>> }

\* int(x) of the quotient n / d (d > 0): truncation toward zero
TruncDiv(n, d) == IF n >= 0 THEN n \div d ELSE 0 - ((0 - n) \div d)

\* int((completion_rate - 0.5) * 40)
CompletionTerm(completed_tasks, missed_tasks) ==
  LET t == TruncDiv(20 * (completed_tasks - missed_tasks),
                    completed_tasks + missed_tasks)
  IN  IF <<completed_tasks, missed_tasks>> \in COMPLETION_FLOAT_SHORT
      THEN IF t > 0 THEN t - 1 ELSE t + 1
      ELSE t

\* calculate_discipline_score with the streak bonus not limited to 20
calculate_discipline_score_unlimited_streak(completed_tasks, missed_tasks, streak, focus_time) ==
  LET base_score == IF completed_tasks + missed_tasks > 0
                    THEN 50 + CompletionTerm(completed_tasks, missed_tasks)
                    ELSE 50
  IN  Max(0, Min(100, base_score + streak * 2 + Min(10, focus_time \div 30)))

\* base 50, completion term, streak bonus, focus bonus, clamped to 0..100
calculate_discipline_score(completed_tasks, missed_tasks, streak, focus_time) ==
  LET base_score == IF completed_tasks + missed_tasks > 0
                    THEN 50 + CompletionTerm(completed_tasks, missed_tasks)
                    ELSE 50
      streak_bonus == Min(20, streak * 2)
      focus_bonus == Min(10, focus_time \div 30)
      final_score == base_score + streak_bonus + focus_bonus
  IN  Max(0, Min(100, final_score))

\* calculate_streak with both comparisons inclusive (<= for <)
calculate_streak_inclusive(last_active, current_streak, t) ==
  LET diff == t - last_active
  IN  IF diff <= DAY THEN <<current_streak, 10>>
      ELSE IF diff <= TWO_DAYS
           THEN <<current_streak + 1, Min(10 + (current_streak + 1), 30)>>
           ELSE <<0, 10>>

\* calculate_streak(last_active, current_streak) evaluated at clock value t:
\* <<new streak, multiplier in tenths>>
calculate_streak(last_active, current_streak, t) ==
  LET diff == t - last_active
  IN  IF diff < DAY THEN <<current_streak, 10>>
      ELSE IF diff < TWO_DAYS
           THEN <<current_streak + 1, Min(10 + (current_streak + 1), 30)>>
           ELSE <<0, 10>>

\* ACHIEVEMENTS, in the order of the dict
ACHIEVEMENT_IDS ==
  << "first_task", "speed_demon", "week_warrior", "level_10", "focus_master",
     "discipline_god" >>

\* round(score_percentage, 1) for a score given in hundredths of a percent
\* whose last digit is not 5 (no tie, so the nearest tenth is unambiguous);
\* the result in tenths of a percent
RoundTenths(score100) == (score100 + 5) \div 10

\* the scores below 50.0, in tenths, for which the binary64 value of
\* (50.0 - score) * 10 falls just short of the integer 500 - score
XP_PENALTY_FLOAT_SHORT ==
  { 322, 327, 332, 337, 342, 347, 352, 357, 362, 367, 372, 376, 377, 381, 382,
    386, 387, 391, 392, 396, 397, 401, 402, 406, 407, 411, 412, 416, 417, 421,
    422, 426, 427, 431, 432, 436, 437, 441, 442, 446, 447, 451, 452, 456, 457,
    461, 462, 466, 467, 471, 472, 476, 477, 481, 482, 486, 487, 491, 492, 496,
    497 }

\* calculate_grade with the A* threshold exclusive (> 95.0)
calculate_grade_exclusive(score100) ==
  LET score == RoundTenths(score100)
      grade == IF score > 950 THEN "A*"
               ELSE IF score >= 850 THEN "A"
               ELSE IF score >= 700 THEN "B"
               ELSE IF score >= 500 THEN "C"
               ELSE IF score >= 400 THEN "D"
               ELSE "F"
      xp_multiplier == CASE grade = "A*" -> 20 [] grade = "A" -> 15
                         [] grade = "B" -> 12 [] grade = "C" -> 10
                         [] grade = "D" -> 5  [] grade = "F" -> 0
      xp_penalty == IF score < 500
                    THEN IF score \in XP_PENALTY_FLOAT_SHORT
                         THEN 500 - score - 1 ELSE 500 - score
                    ELSE 0
      extra_quests == IF score < 500 THEN Max(1, (500 - score) \div 100) ELSE 0
  IN  [grade |-> grade, score |-> score, xp_multiplier |-> xp_multiplier,
       xp_penalty |-> xp_penalty, extra_daily_quests |-> extra_quests]

\* calculate_grade(score_percentage): score in tenths of a percent,
\* xp_multiplier in tenths
calculate_grade(score100) ==
  LET score == RoundTenths(score100)
      grade == IF score >= 950 THEN "A*"
               ELSE IF score >= 850 THEN "A"
               ELSE IF score >= 700 THEN "B"
               ELSE IF score >= 500 THEN "C"
               ELSE IF score >= 400 THEN "D"
               ELSE "F"
      xp_multiplier == CASE grade = "A*" -> 20 [] grade = "A" -> 15
                         [] grade = "B" -> 12 [] grade = "C" -> 10
                         [] grade = "D" -> 5  [] grade = "F" -> 0
      xp_penalty == IF score < 500
                    THEN IF score \in XP_PENALTY_FLOAT_SHORT
                         THEN 500 - score - 1 ELSE 500 - score
                    ELSE 0
      extra_quests == IF score < 500 THEN Max(1, (500 - score) \div 100) ELSE 0
  IN  [grade |-> grade, score |-> score, xp_multiplier |-> xp_multiplier,
       xp_penalty |-> xp_penalty, extra_daily_quests |-> extra_quests]

\* the table's checks with speed_demon requiring more than 5 tasks today
AchievementCheck_strict(id, stats) ==
  CASE id = "first_task"     -> stats.tasks_completed >= 1
    [] id = "speed_demon"    -> stats.tasks_today > 5
    [] id = "week_warrior"   -> stats.current_streak >= 7
    [] id = "level_10"       -> stats.level >= 10
    [] id = "focus_master"   -> stats.total_focus_sessions >= 100
    [] id = "discipline_god" -> stats.discipline_score >= 90

\* ACHIEVEMENTS[id]["check"](stats)
AchievementCheck(id, stats) ==
  CASE id = "first_task"     -> stats.tasks_completed >= 1
    [] id = "speed_demon"    -> stats.tasks_today >= 5
    [] id = "week_warrior"   -> stats.current_streak >= 7
    [] id = "level_10"       -> stats.level >= 10
    [] id = "focus_master"   -> stats.total_focus_sessions >= 100
    [] id = "discipline_god" -> stats.discipline_score >= 90

\* check_achievements(user_stats): the ids whose check holds, in table order
check_achievements(user_stats) ==
  SelectSeq(ACHIEVEMENT_IDS, LAMBDA id : AchievementCheck(id, user_stats))

\* generate_boss_challenge: the five templates random.choice draws from
CHALLENGES ==
  << "Complete 5 high-difficulty tasks",
     "Study for 2 hours without breaks",
     "Complete all tasks in your weakest skill tree",
     "Achieve a perfect focus session (no distractions)",
     "Complete tasks worth 500+ XP today" >>

\* generate_boss_challenge without the upper clamp of the difficulty
generate_boss_challenge_uncapped(user_level, choice) ==
  LET difficulty == Max(1, user_level \div 5 + 1)
      xp_reward  == difficulty * 100 + user_level * 10
  IN  [challenge_text |-> CHALLENGES[choice], difficulty |-> difficulty,
       xp_reward |-> xp_reward]

\* generate_boss_challenge(user_level), `choice` the index random.choice drew
generate_boss_challenge(user_level, choice) ==
  LET difficulty == Min(5, Max(1, user_level \div 5 + 1))
      xp_reward  == difficulty * 100 + user_level * 10
  IN  [challenge_text |-> CHALLENGES[choice], difficulty |-> difficulty,
       xp_reward |-> xp_reward]

\* ---------------------------------------------------------------- ai_coach
\* sum(s.get('duration_minutes', 0) for s in sessions)
RECURSIVE SumDurations(_)
SumDurations(sessions) ==
  IF sessions = <<>> THEN 0
  ELSE Head(sessions).duration_minutes + SumDurations(Tail(sessions))

\* sum(1 for s in sessions if s.get('successful', False))
RECURSIVE CountSuccessful(_)
CountSuccessful(sessions) ==
  IF sessions = <<>> THEN 0
  ELSE (IF Head(sessions).successful THEN 1 ELSE 0) + CountSuccessful(Tail(sessions))

\* detect_burnout_risk looking at the first seven sessions (focus_sessions[:7])
detect_burnout_risk_oldest(focus_sessions) ==
  IF Len(focus_sessions) < 7
  THEN [risk_level |-> "low", message |-> "Not enough data yet"]
  ELSE LET recent_sessions == SubSeq(focus_sessions, 1, 7)
           total == SumDurations(recent_sessions)
           successes == CountSuccessful(recent_sessions)
       IN  IF total > 360 * 7
           THEN [risk_level |-> "high",
                 message |-> "Warning: Overworking detected. Take breaks to avoid burnout."]
           ELSE IF 2 * successes < 7
           THEN [risk_level |-> "medium",
                 message |-> "Your focus success rate is dropping. Consider shorter sessions."]
           ELSE [risk_level |-> "low", message |-> "You're doing great!"]

\* detect_burnout_risk(focus_sessions, tasks_completed); the second argument is
\* never read. avg_duration > 360 is total / 7 > 360, success_rate < 0.5 is
\* successes / 7 < 0.5
detect_burnout_risk(focus_sessions) ==
  IF Len(focus_sessions) < 7
  THEN [risk_level |-> "low", message |-> "Not enough data yet"]
  ELSE LET recent_sessions == SubSeq(focus_sessions, Len(focus_sessions) - 6, Len(focus_sessions))
           total == SumDurations(recent_sessions)
           successes == CountSuccessful(recent_sessions)
       IN  IF total > 360 * 7
           THEN [risk_level |-> "high",
                 message |-> "Warning: Overworking detected. Take breaks to avoid burnout."]
           ELSE IF 2 * successes < 7
           THEN [risk_level |-> "medium",
                 message |-> "Your focus success rate is dropping. Consider shorter sessions."]
           ELSE [risk_level |-> "low", message |-> "You're doing great!"]

\* hour_performance, a dict, as the sequence of its items in insertion
\* order: hour_performance[hour] = hour_performance.get(hour, 0) + 1
Bump(perf, hour) ==
  IF \E i \in 1..Len(perf) : perf[i].hour = hour
  THEN [i \in 1..Len(perf) |->
          IF perf[i].hour = hour THEN [perf[i] EXCEPT !.n = @ + 1] ELSE perf[i]]
  ELSE Append(perf, [hour |-> hour, n |-> 1])

\* the loop over focus_sessions: successful sessions counted by start hour
RECURSIVE Tally(_, _)
Tally(sessions, perf) ==
  IF sessions = <<>> THEN perf
  ELSE Tally(Tail(sessions),
             IF Head(sessions).successful THEN Bump(perf, Head(sessions).hour)
             ELSE perf)

\* max(hour_performance, key=hour_performance.get): the first key, in
\* insertion order, whose count no other key exceeds
BestHour(perf) ==
  LET i == CHOOSE j \in 1..Len(perf) :
             /\ \A k \in 1..Len(perf) : perf[k].n <= perf[j].n
             /\ \A k \in 1..(j - 1) : perf[k].n < perf[j].n
  IN  perf[i].hour

\* suggest_optimal_time with noon counted as morning (best_hour <= 12)
suggest_optimal_time_noon_morning(focus_sessions) ==
  IF Len(focus_sessions) < 10
  THEN [text |-> "Try studying in the morning for better focus.", hour |-> -1]
  ELSE LET hour_performance == Tally(focus_sessions, <<>>)
       IN  IF hour_performance = <<>>
           THEN [text |-> "Complete more sessions to get personalized recommendations.",
                 hour |-> -1]
           ELSE LET best_hour == BestHour(hour_performance)
                IN  IF best_hour <= 12
                    THEN [text |-> "Morning power!", hour |-> best_hour]
                    ELSE IF best_hour < 17
                    THEN [text |-> "Afternoon warrior!", hour |-> best_hour]
                    ELSE [text |-> "Night owl mode!", hour |-> best_hour]

\* suggest_optimal_time(focus_sessions), every session carrying a start_time
\* whose .hour is `hour`; the result is the message's band and the hour in it
suggest_optimal_time(focus_sessions) ==
  IF Len(focus_sessions) < 10
  THEN [text |-> "Try studying in the morning for better focus.", hour |-> -1]
  ELSE LET hour_performance == Tally(focus_sessions, <<>>)
       IN  IF hour_performance = <<>>
           THEN [text |-> "Complete more sessions to get personalized recommendations.",
                 hour |-> -1]
           ELSE LET best_hour == BestHour(hour_performance)
                IN  IF best_hour < 12
                    THEN [text |-> "Morning power!", hour |-> best_hour]
                    ELSE IF best_hour < 17
                    THEN [text |-> "Afternoon warrior!", hour |-> best_hour]
                    ELSE [text |-> "Night owl mode!", hour |-> best_hour]

\* datetime.now(timezone.utc).strftime("%Y-%m-%d"): the calendar day number
DateOf(t) == t \div 86400

\* ================================================================ state
VARIABLES
  users,            \* db.users: id -> document or Null
  skill_trees,      \* db.skill_trees: user id -> skill -> document or Null
  tasks,            \* db.tasks: id -> document or Null
  ntasks,           \* task ids handed out so far
  boss_challenges,  \* db.boss_challenges: sequence of documents (id = index)
  achievements,     \* db.achievements: sequence of [user_id, achievement_id]
  focus_sessions,   \* db.focus_sessions: user id -> number of documents
  now,              \* the UTC clock, seconds
  req,              \* the requests in flight: slot -> handler position and locals
  serial,           \* TRUE when the server handles one request at a time
  db0,              \* serial only: the stored state when the running request began
  probe             \* the last call of a scoring function made on its own:
                    \* [fn, args, out]

vars == <<users, skill_trees, tasks, ntasks, boss_challenges, achievements,
          focus_sessions, now,
          req, serial, db0, probe>>

DB == [users |-> users, skill_trees |-> skill_trees, tasks |-> tasks,
       boss_challenges |-> boss_challenges, achievements |-> achievements,
       focus_sessions |-> focus_sessions]

Idle == [op |-> "idle", pc |-> "idle", uid |-> 0, user |-> Null, id |-> 0,
         doc |-> Null, loc |-> Null, status |-> 0, xp_gained |-> 0, new_level |-> 0]

InFlight == {p \in Procs : req[p].op # "idle"}

\* a request may be accepted in slot p
CanStart(p) ==
  /\ req[p].op = "idle"
  /\ serial => (InFlight = {} /\ p = 1)

\* first step of every authenticated handler: get_current_user
Begin(p, op, pc, u, id, loc) ==
  /\ CanStart(p)
  /\ users[u] # Null
  /\ req' = [req EXCEPT ![p] = [Idle EXCEPT !.op = op, !.pc = pc, !.uid = u,
                                             !.user = users[u], !.id = id,
                                             !.loc = loc]]
  /\ db0' = IF serial THEN DB ELSE db0

\* the handler returns or raises: the response is kept until it is delivered
Finish(p, status, xp_gained, new_level) ==
  req' = [req EXCEPT ![p] = [Idle EXCEPT !.op = req[p].op, !.pc = "done",
                                         !.uid = req[p].uid, !.id = req[p].id,
                                         !.status = status,
                                         !.xp_gained = xp_gained,
                                         !.new_level = new_level]]

\* the handler returns a document
Return(p, doc) ==
  req' = [req EXCEPT ![p] = [Idle EXCEPT !.op = req[p].op, !.pc = "done",
                                         !.uid = req[p].uid, !.id = req[p].id,
                                         !.status = 200, !.doc = doc]]

Goto(p, pc) == req' = [req EXCEPT ![p].pc = pc]

Start(one_at_a_time) ==
  /\ users = [u \in UserIds |-> Null]
  /\ skill_trees = [u \in UserIds |-> [s \in SkillSet |-> Null]]
  /\ tasks = [t \in TaskSlots |-> Null]
  /\ ntasks = 0
  /\ boss_challenges = <<>>
  /\ achievements = <<>>
  /\ focus_sessions = [u \in UserIds |-> 0]
  /\ now = 0
  /\ req = [p \in Procs |-> Idle]
  /\ serial = one_at_a_time
  /\ db0 = Null
  /\ probe = [fn |-> "none", args |-> <<>>, out |-> <<>>]

Init == Start(FALSE)

\* the same server run with a single worker that finishes each request before
\* it accepts the next one
InitSeq == Start(TRUE)

\* ================================================================ server.py

NewUser(email, t) ==
  [email |-> email, level |-> 1, xp |-> 0, total_xp |-> 0, discipline_score |-> 50,
   current_streak |-> 0, longest_streak |-> 0, last_active |-> t, created_at |-> t]

NewSkillTree == [level |-> 1, xp |-> 0, total_xp |-> 0]

StoredUsers == {u \in UserIds : users[u] # Null}

Pending(op) == {q \in Procs : req[q].op = op /\ req[q].pc # "done"}

\* ---------------------------------------------------------------- signup
\* existing_user = await db.users.find_one({"email": ...}); 400 when found
signup_find_user(p, email) ==
  /\ CanStart(p)
  /\ LET existing == \E u \in StoredUsers : users[u].email = email
     IN  /\ existing \/ Cardinality(StoredUsers) < MaxUsers
         /\ req' = [req EXCEPT ![p] =
                      IF existing
                      THEN [Idle EXCEPT !.op = "signup", !.pc = "done", !.status = 400]
                      ELSE [Idle EXCEPT !.op = "signup", !.pc = "insert_user",
                                        !.loc = [email |-> email]]]
  /\ db0' = IF serial THEN DB ELSE db0
  /\ UNCHANGED <<users, skill_trees, tasks, ntasks, boss_challenges, achievements,
                 focus_sessions, now, serial, probe>>

\* user = User(...); await db.users.insert_one(user_dict)
signup_insert_user(p) ==
  /\ req[p].op = "signup" /\ req[p].pc = "insert_user"
  /\ LET u == CHOOSE v \in UserIds :
                 users[v] = Null /\ \A w \in UserIds : w < v => users[w] # Null
     IN  /\ users' = [users EXCEPT ![u] = NewUser(req[p].loc.email, now)]
         /\ req' = [req EXCEPT ![p].pc = "insert_skill", ![p].uid = u, ![p].id = 1]
  /\ UNCHANGED <<skill_trees, tasks, ntasks, boss_challenges, achievements,
                 focus_sessions, now, serial, db0, probe>>

\* for skill in [...]: await db.skill_trees.insert_one(...); then return Token
signup_insert_skill(p) ==
  /\ req[p].op = "signup" /\ req[p].pc = "insert_skill"
  /\ LET k == req[p].id
     IN  /\ skill_trees' = [skill_trees EXCEPT ![req[p].uid][SKILLS[k]] = NewSkillTree]
         /\ IF k = Len(SKILLS)
            THEN Finish(p, 200, 0, 0)
            ELSE req' = [req EXCEPT ![p].id = k + 1]
  /\ UNCHANGED <<users, tasks, ntasks, boss_challenges, achievements,
                 focus_sessions, now, serial, db0, probe>>

\* ---------------------------------------------------------------- create_task
create_task_get_user(p, u, td) ==
  /\ ntasks < MaxTasks
  /\ Begin(p, "create_task", "insert", u, 0, td)
  /\ UNCHANGED <<users, skill_trees, tasks, ntasks, boss_challenges, achievements,
                 focus_sessions, now, serial, probe>>

\* xp_reward = calculate_xp_reward(difficulty, estimated_minutes,
\*                                 1.0 + user.current_streak * 0.1); insert_one
create_task_insert(p) ==
  /\ req[p].op = "create_task" /\ req[p].pc = "insert"
  /\ LET td == req[p].loc
         xp_reward == calculate_xp_reward(td.difficulty, td.estimated_minutes,
                                          10 + req[p].user.current_streak)
     IN  tasks' = [tasks EXCEPT ![ntasks + 1] =
                     [user_id |-> req[p].uid, skill_tree |-> td.skill_tree,
                      difficulty |-> td.difficulty,
                      estimated_minutes |-> td.estimated_minutes,
                      xp_reward |-> xp_reward, completed |-> FALSE,
                      completed_at |-> -1]]
  /\ ntasks' = ntasks + 1
  /\ Finish(p, 200, 0, 0)
  /\ UNCHANGED <<users, skill_trees, boss_challenges, achievements,
                 focus_sessions, now, serial, db0, probe>>

\* ---------------------------------------------------------------- complete_task
complete_task_get_user(p, u, tid) ==
  /\ Begin(p, "complete_task", "find_task", u, tid, Null)
  /\ UNCHANGED <<users, skill_trees, tasks, ntasks, boss_challenges, achievements,
                 focus_sessions, now, serial, probe>>

\* complete_task_find_task without the `if task['completed']` guard
complete_task_find_task_unguarded(p) ==
  /\ req[p].op = "complete_task" /\ req[p].pc = "find_task"
  /\ LET task == tasks[req[p].id]
     IN  IF task = Null \/ task.user_id # req[p].uid
         THEN Finish(p, 404, 0, 0)
         ELSE req' = [req EXCEPT ![p].pc = "update_task", ![p].doc = task]
  /\ UNCHANGED <<users, skill_trees, tasks, ntasks, boss_challenges, achievements,
                 focus_sessions, now, serial, db0, probe>>

\* task = await db.tasks.find_one({"id": task_id, "user_id": user.id});
\* 404 when absent, 400 when task['completed']
complete_task_find_task(p) ==
  /\ req[p].op = "complete_task" /\ req[p].pc = "find_task"
  /\ LET task == tasks[req[p].id]
     IN  IF task = Null \/ task.user_id # req[p].uid
         THEN Finish(p, 404, 0, 0)
         ELSE IF task.completed
              THEN Finish(p, 400, 0, 0)
              ELSE req' = [req EXCEPT ![p].pc = "update_task", ![p].doc = task]
  /\ UNCHANGED <<users, skill_trees, tasks, ntasks, boss_challenges, achievements,
                 focus_sessions, now, serial, db0, probe>>

\* complete_task_update_task that also recomputes the task's xp_reward with
\* the streak the completion gives the user
complete_task_update_task_recomputes(p) ==
  /\ req[p].op = "complete_task" /\ req[p].pc = "update_task"
  /\ LET user == req[p].user
         task == tasks[req[p].id]
         new_streak == calculate_streak(user.last_active, user.current_streak, now)[1]
     IN  tasks' = [tasks EXCEPT ![req[p].id] =
                     IF task = Null THEN task
                     ELSE [task EXCEPT !.completed = TRUE, !.completed_at = now,
                                       !.xp_reward = calculate_xp_reward(
                                          task.difficulty, task.estimated_minutes,
                                          10 + new_streak)]]
  /\ Goto(p, "update_user")
  /\ UNCHANGED <<users, skill_trees, ntasks, boss_challenges, achievements,
                 focus_sessions, now, serial, db0, probe>>

\* await db.tasks.update_one({"id": task_id}, {"$set": {"completed": True, ...}})
complete_task_update_task(p) ==
  /\ req[p].op = "complete_task" /\ req[p].pc = "update_task"
  /\ tasks' = [tasks EXCEPT ![req[p].id] =
                 IF @ = Null THEN @
                 ELSE [@ EXCEPT !.completed = TRUE, !.completed_at = now]]
  /\ Goto(p, "update_user")
  /\ UNCHANGED <<users, skill_trees, ntasks, boss_challenges, achievements,
                 focus_sessions, now, serial, db0, probe>>

\* complete_task_update_user whose $set leaves longest_streak out
complete_task_update_user_keeps_longest(p) ==
  /\ req[p].op = "complete_task" /\ req[p].pc = "update_user"
  /\ LET user == req[p].user
         xp_gained == req[p].doc.xp_reward
         new_total_xp == user.total_xp + xp_gained
         new_level == calculate_level_from_xp(new_total_xp)
         streak == calculate_streak(user.last_active, user.current_streak, now)
         new_streak == streak[1]
     IN  IF xp_for_next_level(new_level) = 0
         THEN /\ Finish(p, 500, xp_gained, new_level)
              /\ UNCHANGED users
         ELSE /\ users' = [users EXCEPT ![req[p].uid] =
                             IF @ = Null THEN @
                             ELSE [@ EXCEPT
                                     !.total_xp = new_total_xp,
                                     !.xp = new_total_xp % xp_for_next_level(new_level),
                                     !.level = new_level,
                                     !.current_streak = new_streak,
                                     !.last_active = now]]
              /\ req' = [req EXCEPT ![p].pc = "inc_skill",
                                    ![p].xp_gained = xp_gained,
                                    ![p].new_level = new_level]
  /\ UNCHANGED <<skill_trees, tasks, ntasks, boss_challenges, achievements,
                 focus_sessions, now, serial, db0, probe>>

\* complete_task_update_user whose $set also stores a recomputed
\* discipline_score
complete_task_update_user_scores(p) ==
  /\ req[p].op = "complete_task" /\ req[p].pc = "update_user"
  /\ LET user == req[p].user
         xp_gained == req[p].doc.xp_reward
         new_total_xp == user.total_xp + xp_gained
         new_level == calculate_level_from_xp(new_total_xp)
         streak == calculate_streak(user.last_active, user.current_streak, now)
         new_streak == streak[1]
         longest_streak == Max(new_streak, user.longest_streak)
     IN  IF xp_for_next_level(new_level) = 0
         THEN /\ Finish(p, 500, xp_gained, new_level)
              /\ UNCHANGED users
         ELSE /\ users' = [users EXCEPT ![req[p].uid] =
                             IF @ = Null THEN @
                             ELSE [@ EXCEPT
                                     !.total_xp = new_total_xp,
                                     !.xp = new_total_xp % xp_for_next_level(new_level),
                                     !.level = new_level,
                                     !.current_streak = new_streak,
                                     !.longest_streak = longest_streak,
                                     !.last_active = now,
                                     !.discipline_score =
                                        calculate_discipline_score(1, 0, new_streak, 0)]]
              /\ req' = [req EXCEPT ![p].pc = "inc_skill",
                                    ![p].xp_gained = xp_gained,
                                    ![p].new_level = new_level]
  /\ UNCHANGED <<skill_trees, tasks, ntasks, boss_challenges, achievements,
                 focus_sessions, now, serial, db0, probe>>

\* new_total_xp, new_level, streak from the user read by get_current_user;
\* new_total_xp % xp_for_next_level(new_level) raises ZeroDivisionError when the
\* divisor is 0 (the request ends with HTTP 500 before the update is sent);
\* otherwise await db.users.update_one({"id": user.id}, {"$set": {...}})
complete_task_update_user(p) ==
  /\ req[p].op = "complete_task" /\ req[p].pc = "update_user"
  /\ LET user == req[p].user
         xp_gained == req[p].doc.xp_reward
         new_total_xp == user.total_xp + xp_gained
         new_level == calculate_level_from_xp(new_total_xp)
         streak == calculate_streak(user.last_active, user.current_streak, now)
         new_streak == streak[1]
         longest_streak == Max(new_streak, user.longest_streak)
     IN  IF xp_for_next_level(new_level) = 0
         THEN /\ Finish(p, 500, xp_gained, new_level)
              /\ UNCHANGED users
         ELSE /\ users' = [users EXCEPT ![req[p].uid] =
                             IF @ = Null THEN @
                             ELSE [@ EXCEPT
                                     !.total_xp = new_total_xp,
                                     !.xp = new_total_xp % xp_for_next_level(new_level),
                                     !.level = new_level,
                                     !.current_streak = new_streak,
                                     !.longest_streak = longest_streak,
                                     !.last_active = now]]
              /\ req' = [req EXCEPT ![p].pc = "inc_skill",
                                    ![p].xp_gained = xp_gained,
                                    ![p].new_level = new_level]
  /\ UNCHANGED <<skill_trees, tasks, ntasks, boss_challenges, achievements,
                 focus_sessions, now, serial, db0, probe>>

HasSkillTree(u, s) == s \in SkillSet /\ skill_trees[u][s] # Null

\* await db.skill_trees.update_one({user_id, skill_tree},
\*                                 {"$inc": {"xp": xp_gained, "total_xp": xp_gained}})
complete_task_inc_skill(p) ==
  /\ req[p].op = "complete_task" /\ req[p].pc = "inc_skill"
  /\ LET u == req[p].uid
         s == req[p].doc.skill_tree
     IN  skill_trees' =
           IF HasSkillTree(u, s)
           THEN [skill_trees EXCEPT ![u][s].xp = @ + req[p].xp_gained,
                                    ![u][s].total_xp = @ + req[p].xp_gained]
           ELSE skill_trees
  /\ Goto(p, "find_skill")
  /\ UNCHANGED <<users, tasks, ntasks, boss_challenges, achievements,
                 focus_sessions, now, serial, db0, probe>>

\* skill_tree = await db.skill_trees.find_one({user_id, skill_tree});
\* when absent the handler returns at once
complete_task_find_skill(p) ==
  /\ req[p].op = "complete_task" /\ req[p].pc = "find_skill"
  /\ LET u == req[p].uid
         s == req[p].doc.skill_tree
     IN  IF HasSkillTree(u, s)
         THEN req' = [req EXCEPT ![p].pc = "set_skill_level",
                                 ![p].loc = skill_trees[u][s]]
         ELSE Finish(p, 200, req[p].xp_gained, req[p].new_level)
  /\ UNCHANGED <<users, skill_trees, tasks, ntasks, boss_challenges, achievements,
                 focus_sessions, now, serial, db0, probe>>

\* skill_level = calculate_level_from_xp(skill_tree['total_xp']);
\* await db.skill_trees.update_one(..., {"$set": {"level": skill_level}}); return
complete_task_set_skill_level(p) ==
  /\ req[p].op = "complete_task" /\ req[p].pc = "set_skill_level"
  /\ LET u == req[p].uid
         s == req[p].doc.skill_tree
         skill_level == calculate_level_from_xp(req[p].loc.total_xp)
     IN  skill_trees' =
           IF HasSkillTree(u, s)
           THEN [skill_trees EXCEPT ![u][s].level = skill_level]
           ELSE skill_trees
  /\ Finish(p, 200, req[p].xp_gained, req[p].new_level)
  /\ UNCHANGED <<users, tasks, ntasks, boss_challenges, achievements,
                 focus_sessions, now, serial, db0, probe>>

\* ---------------------------------------------------------------- delete_task
delete_task_get_user(p, u, tid) ==
  /\ Begin(p, "delete_task", "delete", u, tid, Null)
  /\ UNCHANGED <<users, skill_trees, tasks, ntasks, boss_challenges, achievements,
                 focus_sessions, now, serial, probe>>

\* result = await db.tasks.delete_one({"id": task_id, "user_id": user.id});
\* 404 when deleted_count == 0
delete_task_delete(p) ==
  /\ req[p].op = "delete_task" /\ req[p].pc = "delete"
  /\ LET task == tasks[req[p].id]
     IN  IF task = Null \/ task.user_id # req[p].uid
         THEN /\ Finish(p, 404, 0, 0)
              /\ UNCHANGED tasks
         ELSE /\ tasks' = [tasks EXCEPT ![req[p].id] = Null]
              /\ Finish(p, 200, 0, 0)
  /\ UNCHANGED <<users, skill_trees, ntasks, boss_challenges, achievements,
                 focus_sessions, now, serial, db0, probe>>

\* ---------------------------------------------------------------- get_daily_boss
get_daily_boss_get_user(p, u) ==
  /\ Len(boss_challenges) < MaxBoss
  /\ Begin(p, "get_daily_boss", "find", u, 0, Null)
  /\ UNCHANGED <<users, skill_trees, tasks, ntasks, boss_challenges, achievements,
                 focus_sessions, now, serial, probe>>

BossOf(u, date) ==
  {i \in 1..Len(boss_challenges) :
     boss_challenges[i].user_id = u /\ boss_challenges[i].date = date}

\* today = strftime(now); existing = await db.boss_challenges.find_one(
\*   {"user_id": user.id, "date": today}); if existing: return existing
get_daily_boss_find(p) ==
  /\ req[p].op = "get_daily_boss" /\ req[p].pc = "find"
  /\ LET today == DateOf(now)
         found == BossOf(req[p].uid, today)
     IN  IF found # {}
         THEN Return(p, boss_challenges[CHOOSE i \in found : \A j \in found : i <= j])
         ELSE req' = [req EXCEPT ![p].pc = "insert", ![p].loc = [today |-> today]]
  /\ UNCHANGED <<users, skill_trees, tasks, ntasks, boss_challenges, achievements,
                 focus_sessions, now, serial, db0, probe>>

\* boss = BossChallenge(user_id, date=today, **generate_boss_challenge(user.level));
\* await db.boss_challenges.insert_one(...); return boss
\* (completed_at, which no handler reads, is not kept in the document)
get_daily_boss_insert(p, choice) ==
  /\ req[p].op = "get_daily_boss" /\ req[p].pc = "insert"
  /\ choice \in 1..Len(CHALLENGES)
  /\   LET boss_data == generate_boss_challenge(req[p].user.level, choice)
           boss == [id |-> Len(boss_challenges) + 1, user_id |-> req[p].uid,
                    date |-> req[p].loc.today,
                    challenge_text |-> boss_data.challenge_text,
                    difficulty |-> boss_data.difficulty,
                    xp_reward |-> boss_data.xp_reward,
                    completed |-> FALSE]
       IN  /\ boss_challenges' = Append(boss_challenges, boss)
           /\ Return(p, boss)
  /\ UNCHANGED <<users, skill_trees, tasks, ntasks, achievements, focus_sessions, now, serial, db0, probe>>

\* ---------------------------------------------------------------- complete_boss
complete_boss_get_user(p, u, cid) ==
  /\ Begin(p, "complete_boss", "find", u, cid, Null)
  /\ UNCHANGED <<users, skill_trees, tasks, ntasks, boss_challenges, achievements,
                 focus_sessions, now, serial, probe>>

\* challenge = await db.boss_challenges.find_one({"id": ..., "user_id": user.id});
\* 404 when absent, 400 when challenge['completed']
complete_boss_find(p) ==
  /\ req[p].op = "complete_boss" /\ req[p].pc = "find"
  /\ LET cid == req[p].id
     IN  IF cid \notin 1..Len(boss_challenges)
            \/ boss_challenges[cid].user_id # req[p].uid
         THEN Finish(p, 404, 0, 0)
         ELSE IF boss_challenges[cid].completed
              THEN Finish(p, 400, 0, 0)
              ELSE req' = [req EXCEPT ![p].pc = "update_boss",
                                      ![p].doc = boss_challenges[cid]]
  /\ UNCHANGED <<users, skill_trees, tasks, ntasks, boss_challenges, achievements,
                 focus_sessions, now, serial, db0, probe>>

\* await db.boss_challenges.update_one({"id": challenge_id},
\*                                     {"$set": {"completed": True, ...}})
complete_boss_update_boss(p) ==
  /\ req[p].op = "complete_boss" /\ req[p].pc = "update_boss"
  /\ boss_challenges' = [boss_challenges EXCEPT ![req[p].id] =
                           [@ EXCEPT !.completed = TRUE]]
  /\ Goto(p, "update_user")
  /\ UNCHANGED <<users, skill_trees, tasks, ntasks, achievements, focus_sessions, now, serial, db0, probe>>

\* complete_boss_update_user with "level" left out of the $set
complete_boss_update_user_keeps_level(p) ==
  /\ req[p].op = "complete_boss" /\ req[p].pc = "update_user"
  /\ LET user == req[p].user
         xp_gained == req[p].doc.xp_reward
         new_total_xp == user.total_xp + xp_gained
         new_level == calculate_level_from_xp(new_total_xp)
     IN  IF xp_for_next_level(new_level) = 0
         THEN /\ Finish(p, 500, xp_gained, new_level)
              /\ UNCHANGED users
         ELSE /\ users' = [users EXCEPT ![req[p].uid] =
                             IF @ = Null THEN @
                             ELSE [@ EXCEPT
                                     !.total_xp = new_total_xp,
                                     !.xp = new_total_xp % xp_for_next_level(new_level)]]
              /\ Finish(p, 200, xp_gained, new_level)
  /\ UNCHANGED <<skill_trees, tasks, ntasks, boss_challenges, achievements,
                 focus_sessions, now, serial, db0, probe>>

\* new_total_xp % xp_for_next_level(new_level) raises ZeroDivisionError when the
\* divisor is 0; otherwise await db.users.update_one({"id": user.id},
\*   {"$set": {"total_xp", "xp", "level"}}); return
complete_boss_update_user(p) ==
  /\ req[p].op = "complete_boss" /\ req[p].pc = "update_user"
  /\ LET user == req[p].user
         xp_gained == req[p].doc.xp_reward
         new_total_xp == user.total_xp + xp_gained
         new_level == calculate_level_from_xp(new_total_xp)
     IN  IF xp_for_next_level(new_level) = 0
         THEN /\ Finish(p, 500, xp_gained, new_level)
              /\ UNCHANGED users
         ELSE /\ users' = [users EXCEPT ![req[p].uid] =
                             IF @ = Null THEN @
                             ELSE [@ EXCEPT
                                     !.total_xp = new_total_xp,
                                     !.xp = new_total_xp % xp_for_next_level(new_level),
                                     !.level = new_level]]
              /\ Finish(p, 200, xp_gained, new_level)
  /\ UNCHANGED <<skill_trees, tasks, ntasks, boss_challenges, achievements,
                 focus_sessions, now, serial, db0, probe>>

\* ---------------------------------------------------------------- get_available_achievements
get_available_achievements_get_user(p, u) ==
  /\ Begin(p, "get_available_achievements", "count_completed", u, 0, Null)
  /\ UNCHANGED <<users, skill_trees, tasks, ntasks, boss_challenges, achievements,
                 focus_sessions, now, serial, probe>>

CompletedTasks(u) ==
  {t \in TaskSlots : tasks[t] # Null /\ tasks[t].user_id = u /\ tasks[t].completed}

\* tasks_completed = await db.tasks.count_documents({user_id, completed: True})
get_available_achievements_count_completed(p) ==
  /\ req[p].op = "get_available_achievements" /\ req[p].pc = "count_completed"
  /\ req' = [req EXCEPT ![p].pc = "count_today",
                        ![p].loc = [tasks_completed |->
                                      Cardinality(CompletedTasks(req[p].uid))]]
  /\ UNCHANGED <<users, skill_trees, tasks, ntasks, boss_challenges, achievements,
                 focus_sessions, now, serial, db0, probe>>

\* today = strftime(now); tasks_today = await db.tasks.count_documents(
\*   {user_id, completed: True, completed_at: {"$regex": today}})
get_available_achievements_count_today(p) ==
  /\ req[p].op = "get_available_achievements" /\ req[p].pc = "count_today"
  /\ LET today == DateOf(now)
         tasks_today == Cardinality({t \in CompletedTasks(req[p].uid) :
                                       DateOf(tasks[t].completed_at) = today})
     IN  req' = [req EXCEPT ![p].pc = "count_focus",
                            ![p].loc = [tasks_completed |-> req[p].loc.tasks_completed,
                                        tasks_today |-> tasks_today]]
  /\ UNCHANGED <<users, skill_trees, tasks, ntasks, boss_challenges, achievements,
                 focus_sessions, now, serial, db0, probe>>

\* focus_sessions = await db.focus_sessions.count_documents({user_id})
get_available_achievements_count_focus(p) ==
  /\ req[p].op = "get_available_achievements" /\ req[p].pc = "count_focus"
  /\ req' = [req EXCEPT ![p].pc = "find_existing",
                        ![p].loc = [tasks_completed |-> req[p].loc.tasks_completed,
                                    tasks_today |-> req[p].loc.tasks_today,
                                    total_focus_sessions |-> focus_sessions[req[p].uid]]]
  /\ UNCHANGED <<users, skill_trees, tasks, ntasks, boss_challenges, achievements,
                 focus_sessions, now, serial, db0, probe>>

SeqToSet(q) == {q[i] : i \in 1..Len(q)}

\* the response with "unlocked" taken from the current statistics alone
AchievementsResponse_current_only(unlocked_ids, existing_ids, new_achievements) ==
  [unlocked |-> SeqToSet(unlocked_ids),
   new_unlocks |-> new_achievements]

\* the response: {achievements: [... "unlocked": id in unlocked_ids or id in
\* existing_ids], new_unlocks: new_achievements}
AchievementsResponse(unlocked_ids, existing_ids, new_achievements) ==
  [unlocked |-> SeqToSet(unlocked_ids) \cup existing_ids,
   new_unlocks |-> new_achievements]

\* user_stats from the counts and the user read by get_current_user;
\* unlocked_ids = check_achievements(user_stats);
\* existing = await db.achievements.find({user_id}); the ids to insert are the
\* unlocked ones not in existing_ids; with none of them the handler returns
get_available_achievements_find_existing(p) ==
  /\ req[p].op = "get_available_achievements" /\ req[p].pc = "find_existing"
  /\ LET user_stats == [tasks_completed |-> req[p].loc.tasks_completed,
                        tasks_today |-> req[p].loc.tasks_today,
                        current_streak |-> req[p].user.current_streak,
                        level |-> req[p].user.level,
                        total_focus_sessions |-> req[p].loc.total_focus_sessions,
                        discipline_score |-> req[p].user.discipline_score]
         unlocked_ids == check_achievements(user_stats)
         existing_ids == {achievements[i].achievement_id :
                            i \in {j \in 1..Len(achievements) :
                                     achievements[j].user_id = req[p].uid}}
         todo == SelectSeq(unlocked_ids, LAMBDA id : id \notin existing_ids)
     IN  IF todo = <<>>
         THEN Return(p, AchievementsResponse(unlocked_ids, existing_ids, <<>>))
         ELSE req' = [req EXCEPT ![p].pc = "insert",
                                 ![p].loc = [unlocked_ids |-> unlocked_ids,
                                             existing_ids |-> existing_ids,
                                             todo |-> todo,
                                             new_achievements |-> <<>>]]
  /\ UNCHANGED <<users, skill_trees, tasks, ntasks, boss_challenges, achievements,
                 focus_sessions, now, serial, db0, probe>>

\* for ach_id in unlocked_ids: if ach_id not in existing_ids:
\*   await db.achievements.insert_one(ach_dict); new_achievements.append(...)
get_available_achievements_insert(p) ==
  /\ req[p].op = "get_available_achievements" /\ req[p].pc = "insert"
  /\ LET l == req[p].loc
         ach_id == Head(l.todo)
         new_achievements == Append(l.new_achievements, ach_id)
     IN  /\ achievements' = Append(achievements,
                                   [user_id |-> req[p].uid, achievement_id |-> ach_id])
         /\ IF Tail(l.todo) = <<>>
            THEN Return(p, AchievementsResponse(l.unlocked_ids, l.existing_ids,
                                                new_achievements))
            ELSE req' = [req EXCEPT ![p].loc.todo = Tail(l.todo),
                                    ![p].loc.new_achievements = new_achievements]
  /\ UNCHANGED <<users, skill_trees, tasks, ntasks, boss_challenges,
                 focus_sessions, now, serial, db0, probe>>

\* ---------------------------------------------------------------- clock
Tick(d) ==
  /\ now + d <= MaxTicks * TickSeconds
  /\ now' = now + d
  /\ UNCHANGED <<users, skill_trees, tasks, ntasks, boss_challenges, achievements,
                 focus_sessions, req, serial, db0, probe>>

\* the response of a finished request is delivered
Respond(p) ==
  /\ req[p].pc = "done"
  /\ req' = [req EXCEPT ![p] = Idle]
  /\ UNCHANGED <<users, skill_trees, tasks, ntasks, boss_challenges, achievements,
                 focus_sessions, now, serial, db0, probe>>

TaskIds == 1..ntasks
BossIds == 1..Len(boss_challenges)

\* The outcomes of random.choice that are explored: no handler branches on the
\* text, so two of the five templates show every equal/different pattern.
Choices == {1, 2}

Quiet == InFlight = {}

Running(ops) == {q \in Procs : req[q].op \in ops}

\* ------------------------------------------------ the steps after the first
signup_steps(p) ==
  \/ signup_insert_user(p)
  \/ signup_insert_skill(p)

complete_task_steps(p) ==
  \/ complete_task_find_task(p)
  \/ complete_task_update_task(p)
  \/ complete_task_update_user(p)
  \/ complete_task_inc_skill(p)
  \/ complete_task_find_skill(p)
  \/ complete_task_set_skill_level(p)

get_daily_boss_steps(p) ==
  \/ get_daily_boss_find(p)
  \/ \E choice \in Choices : get_daily_boss_insert(p, choice)

complete_boss_steps(p) ==
  \/ complete_boss_find(p)
  \/ complete_boss_update_boss(p)
  \/ complete_boss_update_user(p)

get_available_achievements_steps(p) ==
  \/ get_available_achievements_count_completed(p)
  \/ get_available_achievements_count_today(p)
  \/ get_available_achievements_count_focus(p)
  \/ get_available_achievements_find_existing(p)
  \/ get_available_achievements_insert(p)

\* ---------------------------------------------------------------- Spec
\* Concurrent completions.  complete_task and complete_boss requests interleave
\* freely with each other and with a signup; a create_task or get_daily_boss
\* request is handled while no other request of the account is in flight, and
\* accounts sign up one after another.  A request lasts far less than a day,
\* so the clock moves between requests.
Next ==
  \/ Quiet /\ Tick(DAY)
  \/ \E p \in Procs :
       \/ Respond(p)
       \/ signup_steps(p)
       \/ create_task_insert(p)
       \/ complete_task_steps(p)
       \/ get_daily_boss_steps(p)
       \/ complete_boss_steps(p)
       \/ \E e \in Emails : Running({"signup"}) = {} /\ signup_find_user(p, e)
       \/ \E u \in UserIds, td \in TaskInputs :
            InFlight \subseteq Running({"signup"}) /\ create_task_get_user(p, u, td)
       \/ \E u \in UserIds :
            InFlight \subseteq Running({"signup"}) /\ get_daily_boss_get_user(p, u)
       \/ \E u \in UserIds, t \in TaskIds :
            Running({"create_task", "get_daily_boss"}) = {}
              /\ complete_task_get_user(p, u, t)
       \/ \E u \in UserIds, c \in BossIds :
            Running({"create_task", "get_daily_boss"}) = {}
              /\ complete_boss_get_user(p, u, c)

Spec == Init /\ [][Next]_vars

\* ---------------------------------------------------------------- SpecSeq
\* One request at a time, every operation, a 12-hour clock that also moves
\* while a request is being handled.
NextSeq ==
  \/ Tick(TickSeconds)
  \/ \E p \in Procs :
       \/ Respond(p)
       \/ signup_steps(p)
       \/ create_task_insert(p)
       \/ complete_task_steps(p)
       \/ delete_task_delete(p)
       \/ get_daily_boss_steps(p)
       \/ complete_boss_steps(p)
       \/ get_available_achievements_steps(p)
       \/ \E e \in Emails : signup_find_user(p, e)
       \/ \E u \in UserIds, td \in TaskInputs : create_task_get_user(p, u, td)
       \/ \E u \in UserIds, t \in TaskIds : complete_task_get_user(p, u, t)
       \/ \E u \in UserIds, t \in TaskIds : delete_task_get_user(p, u, t)
       \/ \E u \in UserIds : get_daily_boss_get_user(p, u)
       \/ \E u \in UserIds, c \in BossIds : complete_boss_get_user(p, u, c)
       \/ \E u \in UserIds : get_available_achievements_get_user(p, u)

SpecSeq == InitSeq /\ [][NextSeq]_vars

\* ---------------------------------------------------------------- SpecBoss
\* Concurrent boss requests of the accounts: get_daily_boss and complete_boss
\* requests interleave freely; accounts sign up one after another.
NextBoss ==
  \/ Quiet /\ Tick(DAY)
  \/ \E p \in Procs :
       \/ Respond(p)
       \/ signup_steps(p)
       \/ get_daily_boss_steps(p)
       \/ complete_boss_steps(p)
       \/ \E e \in Emails : Quiet /\ signup_find_user(p, e)
       \/ \E u \in UserIds : get_daily_boss_get_user(p, u)
       \/ \E u \in UserIds, c \in BossIds : complete_boss_get_user(p, u, c)

SpecBoss == Init /\ [][NextBoss]_vars

\* ---------------------------------------------------------------- SpecAch
\* Concurrent achievement evaluations: get_available_achievements requests
\* interleave freely with each other and with complete_task requests; signup
\* and create_task requests are handled alone.
NextAch ==
  \/ Quiet /\ Tick(DAY)
  \/ \E p \in Procs :
       \/ Respond(p)
       \/ signup_steps(p)
       \/ create_task_insert(p)
       \/ complete_task_steps(p)
       \/ get_available_achievements_steps(p)
       \/ \E e \in Emails : Quiet /\ signup_find_user(p, e)
       \/ \E u \in UserIds, td \in TaskInputs : Quiet /\ create_task_get_user(p, u, td)
       \/ \E u \in UserIds, t \in TaskIds :
            Running({"signup", "create_task"}) = {} /\ complete_task_get_user(p, u, t)
       \/ \E u \in UserIds :
            Running({"signup", "create_task"}) = {}
              /\ get_available_achievements_get_user(p, u)

SpecAch == Init /\ [][NextAch]_vars

\* ================================================================ scoring functions on their own
server_vars == <<users, skill_trees, tasks, ntasks, boss_challenges, achievements,
                 focus_sessions, now, req, serial, db0>>

\* elapsed seconds around both thresholds of calculate_streak, and beyond
ElapsedInputs ==
  {-3600, 0, 1, 43200, 86399, 86400, 86401, 129600, 172799, 172800, 172801, 259200}

MaxStreakIn == 25   \* largest current_streak passed to calculate_streak

\* calculate_streak(last_active, current_streak) called at clock value t
calculate_streak_call ==
  /\ probe.fn = "none"
  /\ \E last_active \in {0, 43200}, elapsed \in ElapsedInputs,
        current_streak \in 0..MaxStreakIn :
       probe' = [fn |-> "calculate_streak",
                 args |-> <<last_active, current_streak, last_active + elapsed>>,
                 out |-> calculate_streak(last_active, current_streak,
                                          last_active + elapsed)]
  /\ UNCHANGED server_vars

SpecStreak == Init /\ [][calculate_streak_call]_vars

MaxXpDense == 450   \* every total_xp from 0 to here is passed

\* levels whose lower XP boundary, and the values next to it, are passed
LevelProbes == {1, 2, 3, 4, 10, 100, 998, 999, 1000, 1001, 4000}

BoundaryXp ==
  {k * k * 100 + d : k \in LevelProbes, d \in {-1, 0, 1}} \cup {0, 2000000000}

XpInputs == (0..MaxXpDense) \cup BoundaryXp

\* calculate_level_from_xp called on two values
calculate_level_from_xp_call ==
  /\ probe.fn = "none"
  /\ \E x \in XpInputs, y \in BoundaryXp :
       probe' = [fn |-> "calculate_level_from_xp",
                 args |-> <<x, y>>,
                 out |-> <<calculate_level_from_xp(x), calculate_level_from_xp(y)>>]
  /\ UNCHANGED server_vars

SpecLevel == Init /\ [][calculate_level_from_xp_call]_vars

\* ================================================================ claims

\* C1: with requests handled one at a time, complete_task on an already
\* completed task and complete_boss on an already completed challenge end with
\* HTTP 400 and leave every stored document as it was when the request began.
AlreadyCompletedAtStart(p) ==
  \/ /\ req[p].op = "complete_task"
     /\ db0.tasks[req[p].id] # Null
     /\ db0.tasks[req[p].id].user_id = req[p].uid
     /\ db0.tasks[req[p].id].completed
  \/ /\ req[p].op = "complete_boss"
     /\ req[p].id \in 1..Len(db0.boss_challenges)
     /\ db0.boss_challenges[req[p].id].user_id = req[p].uid
     /\ db0.boss_challenges[req[p].id].completed

C1_RejectedCompletionChangesNothing ==
  \A p \in Procs :
    (serial /\ req[p].pc = "done" /\ AlreadyCompletedAtStart(p))
      => (req[p].status = 400 /\ DB = db0)

C1_Witness ==
  \E p \in Procs :
    /\ serial /\ req[p].pc = "done" /\ req[p].op = "complete_task"
    /\ AlreadyCompletedAtStart(p)
    /\ req[p].status = 400
    /\ users[req[p].uid].total_xp > 0

\* C2: every stored user's level is calculate_level_from_xp of the stored
\* total_xp, in every state of every interleaving.
C2_LevelMatchesTotalXp ==
  \A u \in StoredUsers : users[u].level = calculate_level_from_xp(users[u].total_xp)

C2_Witness ==
  \E u \in StoredUsers :
    /\ users[u].level >= 2
    /\ \E t \in TaskSlots : tasks[t] # Null /\ tasks[t].user_id = u /\ tasks[t].completed
    /\ \E c \in BossIds : boss_challenges[c].user_id = u /\ boss_challenges[c].completed

\* C9: calculate_streak by elapsed seconds: below 86400 the streak is kept with
\* multiplier 1.0; from 86400 to below 172800 it grows by one with multiplier
\* min(1.0 + 0.1 * new streak, 3.0); from 172800 on it is 0 with multiplier 1.0.
C9_StreakByElapsed ==
  probe.fn = "calculate_streak" =>
    LET elapsed == probe.args[3] - probe.args[1]
        current_streak == probe.args[2]
        grown == 10 + (current_streak + 1)
    IN  /\ elapsed < 86400 => probe.out = <<current_streak, 10>>
        /\ (86400 <= elapsed /\ elapsed < 172800) =>
             probe.out = <<current_streak + 1, IF grown > 30 THEN 30 ELSE grown>>
        /\ elapsed >= 172800 => probe.out = <<0, 10>>
        /\ elapsed \in {86399} => probe.out[1] = current_streak
        /\ elapsed \in {86400, 172799} => probe.out[1] = current_streak + 1
        /\ elapsed = 172800 => probe.out[1] = 0

C9_Witness ==
  /\ probe.fn = "calculate_streak"
  /\ probe.args[3] - probe.args[1] = 86400
  /\ probe.args[2] = 20
  /\ probe.out = <<21, 30>>

\* C10: calculate_level_from_xp is non-decreasing, lies in 1..1000, is
\* floor(sqrt(total_xp / 100)) + 1 clamped to 1..1000, and is 1000 from
\* xp_for_next_level(999) = 99,800,100 on.
LevelIsClampedRoot(x, level) ==
  /\ level \in 1..1000
  /\ (level - 1) * (level - 1) * 100 <= x
  /\ level < 1000 => x < level * level * 100

C10_LevelFromXp ==
  probe.fn = "calculate_level_from_xp" =>
    LET x == probe.args[1]
        y == probe.args[2]
    IN  /\ LevelIsClampedRoot(x, probe.out[1])
        /\ LevelIsClampedRoot(y, probe.out[2])
        /\ x <= y => probe.out[1] <= probe.out[2]
        /\ y <= x => probe.out[2] <= probe.out[1]
        /\ xp_for_next_level(999) = 99800100
        /\ x >= xp_for_next_level(999) => probe.out[1] = 1000

C10_Witness ==
  /\ probe.fn = "calculate_level_from_xp"
  /\ probe.args = <<99800099, 99800100>>
  /\ probe.out = <<999, 1000>>

\* the xp_reward of the tasks of S, added up
RECURSIVE SumRewards(_)
SumRewards(S) ==
  IF S = {} THEN 0
  ELSE LET t == CHOOSE x \in S : TRUE
       IN  tasks[t].xp_reward + SumRewards(S \ {t})

\* C3: a task is completed once and credited once, also when two complete_task
\* requests for it interleave: at most one of them answers success, and a skill
\* tree holds no more XP than the rewards of its owner's completed tasks in it.
C3_TaskCreditedOnce ==
  /\ \A p, q \in Procs :
       (/\ p # q
        /\ req[p].op = "complete_task" /\ req[p].pc = "done" /\ req[p].status = 200
        /\ req[q].op = "complete_task" /\ req[q].pc = "done" /\ req[q].status = 200)
         => req[p].id # req[q].id
  /\ \A u \in UserIds, s \in SkillSet :
       skill_trees[u][s] # Null =>
         skill_trees[u][s].total_xp
           <= SumRewards({t \in CompletedTasks(u) : tasks[t].skill_tree = s})

\* C4: at most one boss challenge is stored per (user, date), and two
\* get_daily_boss answers for the same user and date are the same challenge.
C4_OneBossPerUserDay ==
  /\ \A i, j \in BossIds :
       (/\ boss_challenges[i].user_id = boss_challenges[j].user_id
        /\ boss_challenges[i].date = boss_challenges[j].date) => i = j
  /\ \A p, q \in Procs :
       (/\ req[p].op = "get_daily_boss" /\ req[p].pc = "done"
        /\ req[q].op = "get_daily_boss" /\ req[q].pc = "done"
        /\ req[p].uid = req[q].uid
        /\ req[p].doc.date = req[q].doc.date)
         => /\ req[p].doc.id = req[q].doc.id
            /\ req[p].doc.challenge_text = req[q].doc.challenge_text
            /\ req[p].doc.difficulty = req[q].doc.difficulty
            /\ req[p].doc.xp_reward = req[q].doc.xp_reward

\* C5: at most one achievement document is stored per (user, achievement_id).
C5_NoDuplicateAchievement ==
  \A i, j \in 1..Len(achievements) : achievements[i] = achievements[j] => i = j

\* C6: no step lowers a stored total_xp or level.
C6_XpNeverDecreases ==
  [][\A u \in UserIds :
       (users[u] # Null /\ users'[u] # Null) =>
         /\ users'[u].total_xp >= users[u].total_xp
         /\ users'[u].level >= users[u].level]_vars

\* C7: no state has a task marked completed whose xp_reward is missing from the
\* owner's total_xp: total_xp is at least the rewards of the completed tasks.
C7_CompletedTaskIsCredited ==
  \A u \in StoredUsers : users[u].total_xp >= SumRewards(CompletedTasks(u))

\* C8: a complete_task or complete_boss whose new total_xp maps to level 1000
\* succeeds and stores the new total_xp with level 1000.
C8_LevelCapIsNoError ==
  \A p \in Procs :
    (/\ req[p].pc = "done"
     /\ req[p].op \in {"complete_task", "complete_boss"}
     /\ req[p].new_level = MAX_LEVEL)
      => /\ req[p].status = 200
         /\ users[req[p].uid].level = MAX_LEVEL

\* ---------------------------------------------------------------- calculate_discipline_score
MaxCount == 8    \* largest completed_tasks / missed_tasks passed
MaxStreakScore == 12   \* largest streak passed to calculate_discipline_score

\* focus minutes around the 30-minute steps and the 10-point cap
FocusInputs == {0, 29, 30, 59, 60, 299, 300, 301, 6000}

calculate_discipline_score_call ==
  /\ probe.fn = "none"
  /\ \E c \in 0..MaxCount, m \in 0..MaxCount, k \in 0..MaxStreakScore,
        f \in FocusInputs :
       probe' = [fn |-> "calculate_discipline_score",
                 args |-> <<c, m, k, f>>,
                 out |-> calculate_discipline_score(c, m, k, f)]
  /\ UNCHANGED server_vars

SpecScore == Init /\ [][calculate_discipline_score_call]_vars

Clamp(x, lo, hi) == Max(lo, Min(hi, x))

\* C11: calculate_discipline_score returns an integer in 0..100 equal to
\* clamp(50 + T + min(20, streak*2) + min(10, focus_time div 30), 0, 100) for a
\* completion term T in -20..20 that is at most 1 away from 20*(completed - missed) /
\* (completed + missed), and T = 0 when completed + missed = 0.
C11_DisciplineScore ==
  probe.fn = "calculate_discipline_score" =>
    LET c == probe.args[1]
        m == probe.args[2]
        rest == Min(20, probe.args[3] * 2) + Min(10, probe.args[4] \div 30)
    IN  /\ probe.out \in 0..100
        /\ IF c + m = 0
           THEN probe.out = Clamp(50 + rest, 0, 100)
           ELSE \E T \in -20..20 :
                  /\ (T - 1) * (c + m) <= 20 * (c - m)
                  /\ 20 * (c - m) <= (T + 1) * (c + m)
                  /\ probe.out = Clamp(50 + T + rest, 0, 100)

\* a call where every term is at its maximum: 50 + 20 + 20 + 10
C11_Witness ==
  /\ probe.fn = "calculate_discipline_score"
  /\ probe.args = <<8, 0, 12, 6000>>
  /\ probe.out = 100

\* ---------------------------------------------------------------- calculate_xp_reward
MaxMinutes == 40       \* largest estimated_minutes passed
MaxStreakMult == 14    \* multipliers passed are 1.0 + k * 0.1 for k up to here

\* calculate_xp_reward called with a multiplier >= 1.0, and the level its
\* result gives as a total_xp
calculate_xp_reward_call ==
  /\ probe.fn = "none"
  /\ \E difficulty \in 1..5, estimated_minutes \in 0..MaxMinutes,
        k \in 0..MaxStreakMult :
       LET r == calculate_xp_reward(difficulty, estimated_minutes, 10 + k)
       IN  probe' = [fn |-> "calculate_xp_reward",
                     args |-> <<difficulty, estimated_minutes, 10 + k>>,
                     out |-> <<r, calculate_level_from_xp(r)>>]
  /\ UNCHANGED server_vars

SpecReward == Init /\ [][calculate_xp_reward_call]_vars

\* C12: calculate_xp_reward returns floor((difficulty*20 + estimated_minutes*2)
\* * streak_multiplier), a positive number for difficulty 1..5, minutes >= 0
\* and multiplier >= 1.0; for (3, 30, 1.0) it is 120, which gives level 2.
C12_RewardIsFloor ==
  probe.fn = "calculate_xp_reward" =>
    /\ probe.out[1] = ExactReward(probe.args[1] * 20 + probe.args[2] * 2,
                                  probe.args[3])
    /\ probe.out[1] > 0
    /\ probe.args = <<3, 30, 10>> => probe.out = <<120, 2>>

\* ---------------------------------------------------------------- check_achievements
\* user_stats with every field below, at and above its threshold
StatsInputs ==
  [tasks_completed : {0, 1, 2}, tasks_today : {0, 4, 5, 6},
   current_streak : {0, 6, 7}, level : {1, 9, 10},
   total_focus_sessions : {0, 99, 100}, discipline_score : {50, 89, 90}]

check_achievements_call ==
  /\ probe.fn = "none"
  /\ \E user_stats \in StatsInputs :
       probe' = [fn |-> "check_achievements", args |-> <<user_stats>>,
                 out |-> check_achievements(user_stats)]
  /\ UNCHANGED server_vars

SpecCheckAch == Init /\ [][check_achievements_call]_vars

\* C13: check_achievements returns exactly the ids whose threshold holds, each
\* at most once (first_task: tasks_completed >= 1, speed_demon: tasks_today >=
\* 5, week_warrior: current_streak >= 7, level_10: level >= 10, focus_master:
\* total_focus_sessions >= 100, discipline_god: discipline_score >= 90); stats
\* (1, 0, 0, 1, 0, 50) give first_task only.
C13_AchievementThresholds ==
  probe.fn = "check_achievements" =>
    LET stats == probe.args[1]
        got == {probe.out[i] : i \in 1..Len(probe.out)}
    IN  /\ Cardinality(got) = Len(probe.out)
        /\ got \subseteq {"first_task", "speed_demon", "week_warrior",
                          "level_10", "focus_master", "discipline_god"}
        /\ "first_task" \in got <=> stats.tasks_completed >= 1
        /\ "speed_demon" \in got <=> stats.tasks_today >= 5
        /\ "week_warrior" \in got <=> stats.current_streak >= 7
        /\ "level_10" \in got <=> stats.level >= 10
        /\ "focus_master" \in got <=> stats.total_focus_sessions >= 100
        /\ "discipline_god" \in got <=> stats.discipline_score >= 90
        /\ stats = [tasks_completed |-> 1, tasks_today |-> 0,
                    current_streak |-> 0, level |-> 1,
                    total_focus_sessions |-> 0, discipline_score |-> 50]
             => probe.out = <<"first_task">>

\* the scenario of the claim, and a call at the speed_demon threshold
C13_Witness ==
  /\ probe.fn = "check_achievements"
  /\ probe.args[1].tasks_today = 5
  /\ probe.args[1].tasks_completed = 1
  /\ probe.args[1].discipline_score = 90
  /\ probe.out = <<"first_task", "speed_demon", "discipline_god">>

\* ---------------------------------------------------------------- calculate_grade
MaxScore100 == 10000   \* largest score passed, in hundredths of a percent

\* the grade thresholds in tenths of a percent
GradeThresholds == {400, 500, 700, 850, 950}

\* every score in tenths of a percent, and scores a few hundredths away from
\* a threshold
ScoreInputs ==
  {h \in 0..MaxScore100 : h % 10 = 0}
    \cup {10 * t + d : t \in GradeThresholds, d \in {-6, -4, -1, 1, 4}}

\* scores at, just below and just above every threshold
ScoreProbes ==
  {10 * (t + d) : t \in GradeThresholds, d \in {-1, 0, 1}} \cup {0, MaxScore100}

\* calculate_grade called on two scores
calculate_grade_call ==
  /\ probe.fn = "none"
  /\ \E x \in ScoreInputs, y \in ScoreProbes :
       probe' = [fn |-> "calculate_grade", args |-> <<x, y>>,
                 out |-> <<calculate_grade(x), calculate_grade(y)>>]
  /\ UNCHANGED server_vars

SpecGrade == Init /\ [][calculate_grade_call]_vars

\* grade and multiplier (in tenths) of the highest threshold reached by a score
\* in tenths of a percent
GradeOf(t) ==
  IF t >= 950 THEN <<"A*", 20>>
  ELSE IF t >= 850 THEN <<"A", 15>>
  ELSE IF t >= 700 THEN <<"B", 12>>
  ELSE IF t >= 500 THEN <<"C", 10>>
  ELSE IF t >= 400 THEN <<"D", 5>>
  ELSE <<"F", 0>>

\* C14: for every score in tenths of a percent from 0.0 to 100.0
\* calculate_grade returns the grade and multiplier of the highest threshold
\* reached (>= 95.0 A* 2.0, >= 85.0 A 1.5, >= 70.0 B 1.2, >= 50.0 C 1.0,
\* >= 40.0 D 0.5, else F 0.0), and the multiplier is non-decreasing in the score.
C14_GradeThresholds ==
  probe.fn = "calculate_grade" =>
    /\ \A i \in 1..2 :
         (probe.args[i] % 10 = 0 /\ probe.args[i] <= 10000) =>
           /\ probe.out[i].score = probe.args[i] \div 10
           /\ <<probe.out[i].grade, probe.out[i].xp_multiplier>>
                = GradeOf(probe.args[i] \div 10)
    /\ probe.args[1] <= probe.args[2]
         => probe.out[1].xp_multiplier <= probe.out[2].xp_multiplier
    /\ probe.args[1] >= probe.args[2]
         => probe.out[1].xp_multiplier >= probe.out[2].xp_multiplier

\* a score exactly on the A* threshold next to one a tenth below it
C14_Witness ==
  /\ probe.fn = "calculate_grade"
  /\ probe.args = <<9500, 9490>>
  /\ probe.out[1].grade = "A*" /\ probe.out[1].xp_multiplier = 20
  /\ probe.out[2].grade = "A" /\ probe.out[2].xp_multiplier = 15

\* ---------------------------------------------------------------- generate_boss_challenge
MaxBossLevel == 1000   \* largest user_level passed

\* levels around the steps of the difficulty
LevelSteps == {1, 4, 5, 9, 10, 12, 14, 15, 19, 20, 21, MaxBossLevel}

\* generate_boss_challenge called for two levels, random.choice drawing any
\* of the five templates
generate_boss_challenge_call ==
  /\ probe.fn = "none"
  /\ \E x \in 1..MaxBossLevel, y \in LevelSteps, choice \in 1..Len(CHALLENGES) :
       probe' = [fn |-> "generate_boss_challenge", args |-> <<x, y>>,
                 out |-> <<generate_boss_challenge(x, choice),
                           generate_boss_challenge(y, choice)>>]
  /\ UNCHANGED server_vars

SpecBossGen == Init /\ [][generate_boss_challenge_call]_vars

\* C15: generate_boss_challenge(level) returns difficulty = clamp(level div 5
\* + 1, 1, 5) and xp_reward = difficulty*100 + level*10; the difficulty is in
\* 1..5, non-decreasing in level and 5 from level 20 on; level 12 gives
\* difficulty 3 and xp_reward 420; the text is one of the five templates.
C15_BossChallenge ==
  probe.fn = "generate_boss_challenge" =>
    /\ \A i \in 1..2 :
         LET level == probe.args[i]
             boss == probe.out[i]
         IN  /\ boss.difficulty = Clamp(level \div 5 + 1, 1, 5)
             /\ boss.xp_reward = boss.difficulty * 100 + level * 10
             /\ boss.difficulty \in 1..5
             /\ level >= 20 => boss.difficulty = 5
             /\ level = 12 => boss.difficulty = 3 /\ boss.xp_reward = 420
             /\ boss.challenge_text \in
                  { "Complete 5 high-difficulty tasks",
                    "Study for 2 hours without breaks",
                    "Complete all tasks in your weakest skill tree",
                    "Achieve a perfect focus session (no distractions)",
                    "Complete tasks worth 500+ XP today" }
    /\ probe.args[1] <= probe.args[2]
         => probe.out[1].difficulty <= probe.out[2].difficulty
    /\ probe.args[1] >= probe.args[2]
         => probe.out[1].difficulty >= probe.out[2].difficulty

\* the scenario of the claim next to a level where the clamp acts
C15_Witness ==
  /\ probe.fn = "generate_boss_challenge"
  /\ probe.args = <<1000, 12>>
  /\ probe.out[1].difficulty = 5 /\ probe.out[1].xp_reward = 10500
  /\ probe.out[2].difficulty = 3 /\ probe.out[2].xp_reward = 420

\* C16: a stored task's xp_reward never changes after creation, and the
\* xp_gained of a successful complete_task is the task's stored xp_reward, not
\* a value recomputed with the streak at completion time.
C16_RewardFixedAtCreation ==
  /\ [](\A p \in Procs :
          (/\ req[p].op = "complete_task" /\ req[p].pc = "done"
           /\ req[p].status = 200 /\ tasks[req[p].id] # Null)
            => req[p].xp_gained = tasks[req[p].id].xp_reward)
  /\ [][\A t \in TaskSlots :
          (tasks[t] # Null /\ tasks'[t] # Null)
            => tasks'[t].xp_reward = tasks[t].xp_reward]_vars

\* a task created at streak 0 (120 XP) and completed a day later, when the
\* completion moves the owner's streak to 1
C16_Witness ==
  \E p \in Procs :
    /\ req[p].op = "complete_task" /\ req[p].pc = "done" /\ req[p].status = 200
    /\ req[p].xp_gained = 120
    /\ tasks[req[p].id] # Null /\ tasks[req[p].id].xp_reward = 120
    /\ users[req[p].uid].current_streak = 1

\* ---------------------------------------------------------------- signup requests interleaving
NextSignup ==
  \/ Quiet /\ Tick(DAY)
  \/ \E p \in Procs :
       \/ Respond(p)
       \/ signup_steps(p)
       \/ \E e \in Emails : signup_find_user(p, e)

SpecSignup == Init /\ [][NextSignup]_vars

\* C17: a signup with an email of a stored user is answered 400 and creates
\* nothing, so at most one stored user has a given email, also when two
\* signups with the same email interleave.
C17_EmailIsUnique ==
  /\ \A u, v \in StoredUsers : users[u].email = users[v].email => u = v
  /\ \A p \in Procs :
       (req[p].op = "signup" /\ req[p].pc = "done" /\ req[p].status = 400)
         => req[p].uid = 0

\* ---------------------------------------------------------------- detect_burnout_risk
MaxSessions == 8   \* longest session list passed to detect_burnout_risk

\* sessions at and just above the six-hour mean, successful or not
SessionInputs == [duration_minutes : {360, 361}, successful : BOOLEAN]

\* every list of up to n sessions
RECURSIVE SessionLists(_)
SessionLists(n) ==
  IF n = 0 THEN {<<>>}
  ELSE LET shorter == SessionLists(n - 1)
       IN  shorter \cup {Append(l, x) : l \in {k \in shorter : Len(k) = n - 1},
                                         x \in SessionInputs}

\* detect_burnout_risk called on a list and on its last seven sessions alone
detect_burnout_risk_call ==
  /\ probe.fn = "none"
  /\ \E l \in SessionLists(MaxSessions) :
       probe' = [fn |-> "detect_burnout_risk", args |-> <<l>>,
                 out |-> <<detect_burnout_risk(l),
                           IF Len(l) >= 7
                           THEN detect_burnout_risk(SubSeq(l, Len(l) - 6, Len(l)))
                           ELSE detect_burnout_risk(l)>>]
  /\ UNCHANGED server_vars

SpecBurnout == Init /\ [][detect_burnout_risk_call]_vars

\* C18: with fewer than 7 sessions detect_burnout_risk returns low / not
\* enough data; otherwise the result depends on the last 7 sessions only:
\* their mean duration > 360 gives high, otherwise fewer than half of them
\* successful gives medium, otherwise low.
C18_BurnoutFromLastSeven ==
  probe.fn = "detect_burnout_risk" =>
    LET l == probe.args[1]
        n == Len(l)
        last == (n - 6)..n
        minutes_over == Cardinality({i \in last : l[i].duration_minutes = 361})
        all_known == \A i \in last : l[i].duration_minutes \in {360, 361}
        successes == Cardinality({i \in last : l[i].successful})
    IN  IF n < 7
        THEN probe.out[1] = [risk_level |-> "low", message |-> "Not enough data yet"]
        ELSE /\ probe.out[1] = probe.out[2]
             /\ all_known =>
                  probe.out[1].risk_level =
                    IF 7 * 360 + minutes_over > 7 * 360 THEN "high"
                    ELSE IF 2 * successes < 7 THEN "medium"
                    ELSE "low"

\* eight sessions: an early long one followed by seven of exactly six hours
\* with three successes
C18_Witness ==
  /\ probe.fn = "detect_burnout_risk"
  /\ Len(probe.args[1]) = 8
  /\ probe.args[1][1].duration_minutes = 361
  /\ \A i \in 2..8 : probe.args[1][i].duration_minutes = 360
  /\ Cardinality({i \in 2..8 : probe.args[1][i].successful}) = 3
  /\ probe.out[1].risk_level = "medium"

\* ---------------------------------------------------------------- suggest_optimal_time
MaxVaried == 4    \* sessions at the end of a list that take every value
MaxPadding == 7   \* unsuccessful sessions in front of them, five at least

\* start hours on both sides of the band limits 12 and 17
HourInputs == {11, 12, 16, 17}

TimedSessions == [hour : HourInputs, successful : BOOLEAN]

\* n unsuccessful sessions at hour 12
Padding(n) == [i \in 1..n |-> [hour |-> 12, successful |-> FALSE]]

\* every list of exactly n sessions
RECURSIVE TimedLists(_)
TimedLists(n) ==
  IF n = 0 THEN {<<>>}
  ELSE {Append(l, x) : l \in TimedLists(n - 1), x \in TimedSessions}

suggest_optimal_time_call ==
  /\ probe.fn = "none"
  /\ \E pad \in 5..MaxPadding, l \in TimedLists(MaxVaried) :
       probe' = [fn |-> "suggest_optimal_time", args |-> <<Padding(pad) \o l>>,
                 out |-> suggest_optimal_time(Padding(pad) \o l)]
  /\ UNCHANGED server_vars

SpecOptimalTime == Init /\ [][suggest_optimal_time_call]_vars

\* the number of successful sessions of l that start at hour h
SuccessesAt(l, h) == Cardinality({i \in 1..Len(l) : l[i].successful /\ l[i].hour = h})

\* the position of the first successful session of l at hour h
FirstSuccessAt(l, h) ==
  CHOOSE i \in 1..Len(l) :
    /\ l[i].successful /\ l[i].hour = h
    /\ \A j \in 1..(i - 1) : ~(l[j].successful /\ l[j].hour = h)

\* C19: with fewer than 10 sessions suggest_optimal_time gives the generic
\* suggestion; with 10 or more and none successful the complete-more-sessions
\* message; otherwise the hour with the most successful sessions, a tie going
\* to the hour counted first in the list, in the band morning (< 12),
\* afternoon (12..16) or night.
C19_OptimalTime ==
  probe.fn = "suggest_optimal_time" =>
    LET l == probe.args[1]
        out == probe.out
        hours == {l[i].hour : i \in {j \in 1..Len(l) : l[j].successful}}
    IN  IF Len(l) < 10
        THEN out.text = "Try studying in the morning for better focus."
        ELSE IF hours = {}
        THEN out.text = "Complete more sessions to get personalized recommendations."
        ELSE /\ out.hour \in hours
             /\ \A g \in hours \ {out.hour} :
                  \/ SuccessesAt(l, g) < SuccessesAt(l, out.hour)
                  \/ /\ SuccessesAt(l, g) = SuccessesAt(l, out.hour)
                     /\ FirstSuccessAt(l, out.hour) < FirstSuccessAt(l, g)
             /\ out.text = IF out.hour < 12 THEN "Morning power!"
                           ELSE IF out.hour < 17 THEN "Afternoon warrior!"
                           ELSE "Night owl mode!"

\* ten sessions ending 17, 12, 12, 17 (all successful): a two-two tie that
\* goes to hour 17, counted first
C19_Witness ==
  /\ probe.fn = "suggest_optimal_time"
  /\ Len(probe.args[1]) = 10
  /\ \A i \in 7..10 : probe.args[1][i].successful
  /\ <<probe.args[1][7].hour, probe.args[1][8].hour,
       probe.args[1][9].hour, probe.args[1][10].hour>> = <<17, 12, 12, 17>>
  /\ probe.out = [text |-> "Night owl mode!", hour |-> 17]

\* ---------------------------------------------------------------- create_task at a long streak
MaxStreakStored == 22   \* longest current_streak of the stored user

\* the task inputs whose reward stays far from the integer range's end
SmallTaskInputs == {td \in TaskInputs : td.estimated_minutes <= MaxMinutes}

\* the user who signed up at 0 and completed one 120-XP Fitness task on each
\* of the days 1..k (the tasks created on day 0 and deleted since)
Veteran(k) ==
  [NewUser("a@x", 0) EXCEPT !.total_xp = 120 * k, !.xp = 120 * k,
                            !.level = calculate_level_from_xp(120 * k),
                            !.current_streak = k, !.longest_streak = k,
                            !.last_active = k * DAY]

InitVeteran ==
  \E k \in 0..MaxStreakStored :
    /\ users = [u \in UserIds |-> IF u = 1 THEN Veteran(k) ELSE Null]
    /\ skill_trees =
         [u \in UserIds |->
            [sk \in SkillSet |->
               IF u # 1 THEN Null
               ELSE IF sk = "Fitness"
               THEN [level |-> calculate_level_from_xp(120 * k), xp |-> 120 * k,
                     total_xp |-> 120 * k]
               ELSE NewSkillTree]]
    /\ tasks = [t \in TaskSlots |-> Null]
    /\ ntasks = 0
    /\ boss_challenges = <<>>
    /\ achievements = <<>>
    /\ focus_sessions = [u \in UserIds |-> 0]
    /\ now = k * DAY
    /\ req = [p \in Procs |-> Idle]
    /\ serial = FALSE
    /\ db0 = Null
    /\ probe = [fn |-> "none", args |-> <<>>, out |-> <<>>]

NextVeteran ==
  \E p \in Procs :
    \/ Respond(p)
    \/ create_task_insert(p)
    \/ \E u \in UserIds, td \in SmallTaskInputs : create_task_get_user(p, u, td)

SpecVeteran == InitVeteran /\ [][NextVeteran]_vars

\* C20: the multiplier applied at creation is capped at 3.0: every stored
\* task has xp_reward <= 3 * (difficulty*20 + estimated_minutes*2).
C20_CreationMultiplierCapped ==
  \A t \in TaskSlots :
    tasks[t] # Null =>
      tasks[t].xp_reward
        <= 3 * (tasks[t].difficulty * 20 + tasks[t].estimated_minutes * 2)

\* C21: for completed + missed > 0 the completion term added to the base 50 is
\* floor(20 * (completed - missed) / (completed + missed)), also where it is
\* negative and not an integer before rounding.
C21_CompletionTermIsFloor ==
  (probe.fn = "calculate_discipline_score" /\ probe.args[1] + probe.args[2] > 0) =>
    LET c == probe.args[1]
        m == probe.args[2]
        rest == Min(20, probe.args[3] * 2) + Min(10, probe.args[4] \div 30)
    IN  probe.out = Clamp(50 + ((20 * (c - m)) \div (c + m)) + rest, 0, 100)

\* ---------------------------------------------------------------- xp_for_next_level
MaxLevelIn == 1001   \* largest current_level passed to xp_for_next_level

\* xp_for_next_level(L), with the levels of the threshold L*L*100, of the
\* value before it and of one more total_xp
xp_for_next_level_call ==
  /\ probe.fn = "none"
  /\ \E L \in 1..MaxLevelIn, x \in BoundaryXp :
       probe' = [fn |-> "xp_for_next_level", args |-> <<L, x>>,
                 out |-> <<xp_for_next_level(L),
                           calculate_level_from_xp(L * L * 100),
                           calculate_level_from_xp(L * L * 100 - 1),
                           calculate_level_from_xp(x)>>]
  /\ UNCHANGED server_vars

SpecNextLevel == Init /\ [][xp_for_next_level_call]_vars

\* C22: for 1 <= L < 1000, xp_for_next_level(L) = L*L*100 is the smallest
\* total_xp whose level is greater than L; for L >= 1000 it is 0.
C22_NextLevelThreshold ==
  probe.fn = "xp_for_next_level" =>
    LET L == probe.args[1]
        x == probe.args[2]
    IN  IF L >= 1000
        THEN probe.out[1] = 0
        ELSE /\ probe.out[1] = L * L * 100
             /\ probe.out[2] > L
             /\ probe.out[3] <= L
             /\ (x >= 0 /\ x < probe.out[1]) => probe.out[4] <= L
             /\ x >= probe.out[1] => probe.out[4] > L

\* the last level below the cap: threshold 99,800,100, reached by a total_xp
\* of exactly that value and not by one less
C22_Witness ==
  /\ probe.fn = "xp_for_next_level"
  /\ probe.args = <<999, 99800099>>
  /\ probe.out = <<99800100, 1000, 999, 999>>

\* ---------------------------------------------------------------- complete_task requests while time passes
\* an open Fitness task of user 1 (difficulty 5, 50 minutes: 200 XP), created
\* at signup time with streak 0
OpenTask ==
  [user_id |-> 1, skill_tree |-> "Fitness", difficulty |-> 5,
   estimated_minutes |-> 50, xp_reward |-> calculate_xp_reward(5, 50, 10),
   completed |-> FALSE, completed_at |-> -1]

\* the database after signup and one create_task per task slot, all at time 0
InitOpenTasks ==
  /\ users = [u \in UserIds |-> IF u = 1 THEN NewUser("a@x", 0) ELSE Null]
  /\ skill_trees = [u \in UserIds |->
                      [sk \in SkillSet |-> IF u = 1 THEN NewSkillTree ELSE Null]]
  /\ tasks = [t \in TaskSlots |-> OpenTask]
  /\ ntasks = Cardinality(TaskSlots)
  /\ boss_challenges = <<>>
  /\ achievements = <<>>
  /\ focus_sessions = [u \in UserIds |-> 0]
  /\ now = 0
  /\ req = [p \in Procs |-> Idle]
  /\ serial = FALSE
  /\ db0 = Null
  /\ probe = [fn |-> "none", args |-> <<>>, out |-> <<>>]

\* complete_task requests interleave and the clock advances between any two
\* of their steps
NextStreakRace ==
  \/ Tick(TickSeconds)
  \/ \E p \in Procs :
       \/ Respond(p)
       \/ complete_task_steps(p)
       \/ \E u \in UserIds, t \in TaskIds : complete_task_get_user(p, u, t)

SpecStreakRace == InitOpenTasks /\ [][NextStreakRace]_vars

\* C23: a complete_task less than 24h after the stored last_active leaves
\* current_streak unchanged, each completion raises it by at most 1, and
\* current_streak is at most the number of whole 24-hour periods since the
\* account was created, under any interleaving of complete_task requests.
C23_NoDoubleCountedDay ==
  /\ [](\A u \in StoredUsers :
          users[u].current_streak * DAY <= now - users[u].created_at)
  /\ [][\A p \in Procs :
          (/\ req[p].op = "complete_task" /\ req[p].pc = "update_user"
           /\ req'[p].pc = "inc_skill")
            => LET before == users[req[p].uid]
                   after == users'[req[p].uid]
               IN  /\ after.current_streak <= before.current_streak + 1
                   /\ now - before.last_active < DAY
                        => after.current_streak = before.current_streak]_vars

\* ---------------------------------------------------------------- completions whose responses are kept
\* the boss challenge get_daily_boss stores for the level-1 user 1 at time 0
OpenBoss ==
  LET boss_data == generate_boss_challenge(1, 1)
  IN  [id |-> 1, user_id |-> 1, date |-> DateOf(0),
       challenge_text |-> boss_data.challenge_text,
       difficulty |-> boss_data.difficulty,
       xp_reward |-> boss_data.xp_reward, completed |-> FALSE]

\* the database after signup, one create_task per task slot and one
\* get_daily_boss, all at time 0
InitOpenBoss ==
  /\ users = [u \in UserIds |-> IF u = 1 THEN NewUser("a@x", 0) ELSE Null]
  /\ skill_trees = [u \in UserIds |->
                      [sk \in SkillSet |-> IF u = 1 THEN NewSkillTree ELSE Null]]
  /\ tasks = [t \in TaskSlots |-> OpenTask]
  /\ ntasks = Cardinality(TaskSlots)
  /\ boss_challenges = <<OpenBoss>>
  /\ achievements = <<>>
  /\ focus_sessions = [u \in UserIds |-> 0]
  /\ now = 0
  /\ req = [p \in Procs |-> Idle]
  /\ serial = FALSE
  /\ db0 = Null
  /\ probe = [fn |-> "none", args |-> <<>>, out |-> <<>>]

\* every slot handles one complete_task or complete_boss request and keeps its
\* response
NextXpRace ==
  \E p \in Procs :
    \/ complete_task_steps(p)
    \/ complete_boss_steps(p)
    \/ \E u \in UserIds, t \in TaskIds : complete_task_get_user(p, u, t)
    \/ \E u \in UserIds, c \in BossIds : complete_boss_get_user(p, u, c)

SpecXpRace == InitOpenBoss /\ [][NextXpRace]_vars

\* the xp_gained of the successful completion responses of user u in slots S
RECURSIVE SumXpGained(_, _)
SumXpGained(u, S) ==
  IF S = {} THEN 0
  ELSE LET p == CHOOSE q \in S : TRUE
           r == req[p]
       IN  (IF /\ r.op \in {"complete_task", "complete_boss"}
               /\ r.pc = "done" /\ r.status = 200 /\ r.uid = u
            THEN r.xp_gained ELSE 0) + SumXpGained(u, S \ {p})

\* C24: once no request is in flight, a user's total_xp equals the sum of the
\* xp_gained of all successful complete_task and complete_boss responses.
C24_NoXpUpdateLost ==
  (\A p \in Procs : req[p].pc \in {"idle", "done"}) =>
    \A u \in StoredUsers : users[u].total_xp = SumXpGained(u, Procs)

\* ---------------------------------------------------------------- calculate_grade penalties
\* C25: for every score in tenths of a percent from 0.0 to 100.0, a score
\* >= 50.0 has xp_penalty 0 and extra_daily_quests 0, and a score < 50.0 has
\* xp_penalty = floor((50 - score) * 10) >= 1 and extra_daily_quests =
\* max(1, floor((50 - score) / 10)) in 1..5; score 50.0 is grade C, penalty 0.
C25_GradePenalties ==
  probe.fn = "calculate_grade" =>
    \A i \in 1..2 :
      (probe.args[i] % 10 = 0 /\ probe.args[i] <= 10000) =>
        LET t == probe.args[i] \div 10
            g == probe.out[i]
        IN  /\ t >= 500 => g.xp_penalty = 0 /\ g.extra_daily_quests = 0
            /\ t < 500 =>
                 /\ g.xp_penalty = 500 - t /\ g.xp_penalty >= 1
                 /\ g.extra_daily_quests = Max(1, (500 - t) \div 100)
                 /\ g.extra_daily_quests \in 1..5
            /\ t = 500 => g.grade = "C"

\* ---------------------------------------------------------------- skill-tree accounting
\* C26: once no complete_task request is in flight, every skill-tree record
\* has level = calculate_level_from_xp(its total_xp), whatever the
\* interleaving of the requests that credited it.
C26_SkillLevelMatchesXp ==
  (\A p \in Procs : req[p].pc \in {"idle", "done"}) =>
    \A u \in UserIds, s \in SkillSet :
      skill_trees[u][s] # Null =>
        skill_trees[u][s].level = calculate_level_from_xp(skill_trees[u][s].total_xp)

\* ---------------------------------------------------------------- stored achievements
\* the achievement ids stored for user u in the achievements collection q
StoredAchievements(q, u) ==
  {q[i].achievement_id : i \in {j \in 1..Len(q) : q[j].user_id = u}}

\* C27: an achievement stored for a user is never removed, and the response of
\* every get_available_achievements request accepted after it was stored
\* reports it with unlocked = true and does not list it in new_unlocks, also
\* when the statistic that unlocked it has dropped below its threshold.
C27_UnlockedStaysUnlocked ==
  /\ [][\A i \in 1..Len(achievements) :
          i <= Len(achievements') /\ achievements'[i] = achievements[i]]_vars
  /\ [](\A p \in Procs :
          (req[p].op = "get_available_achievements" /\ req[p].pc = "done") =>
            \A id \in StoredAchievements(db0.achievements, req[p].uid) :
              /\ id \in req[p].doc.unlocked
              /\ id \notin SeqToSet(req[p].doc.new_unlocks))

\* first_task was stored while the user had a completed task; the task has been
\* deleted since (tasks_completed = 0), and a new response still reports
\* first_task as unlocked without listing it as new
C27_Witness ==
  \E p \in Procs :
    /\ req[p].op = "get_available_achievements" /\ req[p].pc = "done"
    /\ "first_task" \in StoredAchievements(db0.achievements, req[p].uid)
    /\ CompletedTasks(req[p].uid) = {}
    /\ "first_task" \in req[p].doc.unlocked
    /\ req[p].doc.new_unlocks = <<>>

\* ---------------------------------------------------------------- discipline_score
\* C28: no operation writes discipline_score: every stored user has the
\* initial value 50, so no discipline_god achievement is ever stored and no
\* get_available_achievements response reports it as unlocked.
C28_DisciplineScoreNeverWritten ==
  /\ \A u \in StoredUsers : users[u].discipline_score = 50
  /\ \A i \in 1..Len(achievements) : achievements[i].achievement_id # "discipline_god"
  /\ \A p \in Procs :
       (req[p].op = "get_available_achievements" /\ req[p].pc = "done") =>
         "discipline_god" \notin req[p].doc.unlocked

\* a user whose completed task raised total_xp and unlocked first_task gets a
\* response without discipline_god
C28_Witness ==
  \E p \in Procs :
    /\ req[p].op = "get_available_achievements" /\ req[p].pc = "done"
    /\ users[req[p].uid].total_xp > 0
    /\ users[req[p].uid].discipline_score = 50
    /\ "first_task" \in req[p].doc.unlocked
    /\ "discipline_god" \notin req[p].doc.unlocked

\* ---------------------------------------------------------------- the stored xp field
\* C29: every stored user has xp = total_xp (the modulo by
\* xp_for_next_level(level) never wraps and xp is not reset on a level-up),
\* and with level < 1000 also 0 <= xp < xp_for_next_level(level).
C29_XpIsProgressInLevel ==
  \A u \in StoredUsers :
    /\ users[u].xp = users[u].total_xp
    /\ users[u].level < MAX_LEVEL =>
         /\ 0 <= users[u].xp
         /\ users[u].xp < xp_for_next_level(users[u].level)

\* a user who levelled up: xp is past the previous level's threshold
C29_Witness ==
  \E u \in StoredUsers :
    /\ users[u].level >= 2
    /\ users[u].xp = users[u].total_xp
    /\ users[u].xp >= xp_for_next_level(users[u].level - 1)

\* ---------------------------------------------------------------- the streak fields
\* current_streak, longest_streak and last_active of a user document
StreakFields(user) == <<user.current_streak, user.longest_streak, user.last_active>>

====
